---- MODULE Spec2Model ----
(***************************************************************************)
(* Energy-Monitor: the statistics engine (Software/energy_stats.py), its   *)
(* constructor, the acquisition thread's add_reading and the query thread's*)
(* daily_power / power_history / live_power / live_voltage /               *)
(* current_history / voltage_history, statement by statement, with the     *)
(* engine's reentrant lock.                                                *)
(*                                                                         *)
(* Time is in whole seconds, counted from the midnight of the day the      *)
(* program starts.  A day has SecondsPerDay seconds (86400 in the program, *)
(* scaled down here).  One add_reading call reads the clock once: the      *)
(* reads of lines 38, 63, 69 and 87 return the same instant.               *)
(* Floating point values are small integers; NaN is a value of its own.    *)
(* Python's 0-based positions are kept for slots (the write cursor, the    *)
(* timestamps) through the accessors At / Put; channel rows are numbered   *)
(* from 1.                                                                 *)
(*                                                                         *)
(* Beside the engine: the ADC object (Software/adc.py) with its setters    *)
(* and read_raw, poll by poll, and one Channel (Software/aquisition.py)    *)
(* with from_config and read.  Each is a state machine of its own (the     *)
(* variables adc and chan) with specifications of its own.  So are the    *)
(* threads of EnergyMeter.run (Software/main.py, the variable meter): the  *)
(* main thread with supervise_reader_thread and the shutdown handler, and  *)
(* the acquisition threads inside read_channels.                           *)
(***************************************************************************)
EXTENDS Integers, Sequences, FiniteSets, TLC

VARIABLES
    engine,                 \* "none" | "ok" | "ValueError" | "IndexError": outcome of __init__
    channels,               \* the channel list handed to __init__ (EnergyMeter.channels)
    current_channels,       \* self.current_channels (phase channels first)
    num_phase_current_channels,
    voltage_channel,        \* self.voltage_channel
    temporal_resolution,    \* self.temporal_resolution
    now,                    \* the wall clock, as last read
    today,                  \* self.today (day number)
    timestamps,             \* self.timestamps
    current_readings,       \* self.current_readings: row -> slots
    voltage_readings,       \* self.voltage_readings
    current_reading_index,  \* self.current_reading_index (the write cursor)
    gen,                    \* generation (number of the reset that created it) of each buffer field
    lock,                   \* self._lock: [owner, count]
    w,                      \* the acquisition thread, inside or between add_reading calls
    r,                      \* the query thread
    adc,                    \* the ADC object (Software/adc.py) and its read_raw call
    chan,                   \* one Channel (Software/aquisition.py) and its read call
    meter                   \* EnergyMeter.run (Software/main.py): the stop flag, the main
                            \* thread and the acquisition threads

engine_vars ==
    <<engine, channels, current_channels, num_phase_current_channels, voltage_channel,
      temporal_resolution, now, today, timestamps, current_readings,
      voltage_readings, current_reading_index, gen, lock, w, r>>

hardware_vars ==
    <<adc, chan>>

vars ==
    <<engine_vars, hardware_vars, meter>>

buffer_vars ==
    <<today, timestamps, current_readings, voltage_readings, current_reading_index, gen>>

config_vars ==
    <<engine, channels, current_channels, num_phase_current_channels, voltage_channel,
      temporal_resolution>>

----------------------------------------------------------------------------
(* Bounds of the model *)

\* seconds of one day (86400 in the program)
SecondsPerDay ==
    4

\* add_reading calls of one run
MaxCalls ==
    2

\* the last instant the clock reaches: the end of the second day
LastInstant ==
    2 * SecondsPerDay - 1

\* the sample intervals the engine is constructed with
Resolutions ==
    {1, 2}

----------------------------------------------------------------------------
(* Values *)

\* np.nan
NaN ==
    -1000000

IsNaN(x) ==
    x = NaN

\* float addition: NaN propagates
FAdd(a, b) ==
    IF IsNaN(a) \/ IsNaN(b) THEN NaN ELSE a + b

\* float multiplication: NaN propagates
FMul(a, b) ==
    IF IsNaN(a) \/ IsNaN(b) THEN NaN ELSE a * b

\* 0-based read of a sequence
At(s, i) ==
    s[i + 1]

\* 0-based write of a sequence
Put(s, i, x) ==
    [s EXCEPT ![i + 1] = x]

\* numpy's index rule for a read: 0 <= i < n, and -n <= i < 0 counts from the end
NpIndex(i, n) ==
    IF i < 0 THEN i + n ELSE i

NpInRange(i, n) ==
    -n <= i /\ i < n

Range(s) ==
    {s[i] : i \in 1..Len(s)}

RECURSIVE SeqSum(_)
SeqSum(s) ==
    IF s = <<>> THEN 0 ELSE s[1] + SeqSum(Tail(s))

\* np.sum of a sequence of floats
RECURSIVE FSum(_)
FSum(s) ==
    IF s = <<>> THEN 0 ELSE FAdd(s[1], FSum(Tail(s)))

\* np.nansum of a sequence of floats
RECURSIVE NanSum(_)
NanSum(s) ==
    IF s = <<>> THEN 0
    ELSE (IF IsNaN(s[1]) THEN 0 ELSE s[1]) + NanSum(Tail(s))

\* the subsequence of s at the positions where keep is TRUE
RECURSIVE SelectAt(_, _)
SelectAt(s, keep) ==
    IF s = <<>> THEN <<>>
    ELSE (IF keep[1] THEN <<s[1]>> ELSE <<>>) \o SelectAt(Tail(s), Tail(keep))

----------------------------------------------------------------------------
(* Channels (aquisition.Channel: a frozen dataclass, equal by its fields) *)

ChannelType(c) ==
    CASE c \in {"p1", "p2"} -> "current_phase"
      [] c \in {"o1", "x"} -> "current_other"
      [] c \in {"v", "v2"} -> "voltage"

\* the channel lists handed to the constructor
ChannelLists ==
    { <<"p1", "o1", "v", "p2">>,      \* one voltage channel
      <<"p1", "o1">>,                 \* no voltage channel
      <<"v", "p1", "v2">> }           \* two voltage channels

\* [channel for channel in channels if channel.type == t]
RECURSIVE OfType(_, _)
OfType(list, t) ==
    IF list = <<>> THEN <<>>
    ELSE (IF ChannelType(list[1]) = t THEN <<list[1]>> ELSE <<>>)
         \o OfType(Tail(list), t)

\* list.index, 1-based: the first position of c in s
IndexOf(s, c) ==
    CHOOSE i \in 1..Len(s) : s[i] = c /\ \A j \in 1..(i - 1) : s[j] # c

\* the reading maps handed to add_reading: (channel, value) in the dict's order
ReadingMaps ==
    { << <<"p1", 1>>, <<"p2", 2>>, <<"o1", 4>>, <<"v", 3>> >>,   \* every channel
      << <<"v", 2>>, <<"p1", 3>> >>,                             \* some channels
      << <<"p1", 2>>, <<"x", 5>>, <<"v", 3>> >> }                \* an unknown channel

----------------------------------------------------------------------------
(* The day buffer *)

\* np.arange(start_of_day, end_of_day, step): ceil((end - start) / step) slots
NumSamples(step) ==
    ((SecondsPerDay - 1) + step - 1) \div step

Arange(start, step) ==
    [i \in 1..NumSamples(step) |-> start + (i - 1) * step]

NaNRow(n) ==
    [i \in 1..n |-> NaN]

StartOfDay(day) ==
    day * SecondsPerDay

\* datetime.date.today()
DayOf(t) ==
    t \div SecondsPerDay

\* (datetime.datetime.now() - start_of_day).seconds // self.temporal_resolution
StartIndex(t, day, step) ==
    ((t - StartOfDay(day)) % SecondsPerDay) \div step

\* the rollover test of add_reading
IsNewDay(ts, t) ==
    ts[Len(ts)] < t

----------------------------------------------------------------------------
(* The reentrant lock (threading.RLock) *)

NoLock ==
    [owner |-> "none", count |-> 0]

\* RLock.acquire returns when the lock is free or already held by the caller
CanAcquire(t) ==
    lock.owner \in {"none", t}

Acquired(t) ==
    [owner |-> t, count |-> lock.count + 1]

\* RLock.release (also at the exit of a with block by an exception)
Released ==
    IF lock.count <= 1 THEN NoLock ELSE [lock EXCEPT !.count = lock.count - 1]

----------------------------------------------------------------------------
(* EnergyStatistics._reset_daily_statistics, field by field *)

\* lines 38-50: self.today and self.timestamps
ResetTimestamps(t, step) ==
    Arange(StartOfDay(DayOf(t)), step)

\* lines 52-56: self.current_readings
ResetCurrentReadings(rows, ts) ==
    [row \in 1..Len(rows) |-> NaNRow(Len(ts))]

\* lines 57-59: self.voltage_readings
ResetVoltageReadings(ts) ==
    NaNRow(Len(ts))

----------------------------------------------------------------------------
(* The ADC object (Software/adc.py).  Bytes and registers are naturals;    *)
(* the clock of read_raw counts ticks of 10 microseconds (the sleep of     *)
(* line 125 is one tick) from the instant line 112 reads it.               *)

RECURSIVE BitAnd(_, _)
\* a & b
BitAnd(a, b) ==
    IF a = 0 \/ b = 0 THEN 0
    ELSE (a % 2) * (b % 2) + 2 * BitAnd(a \div 2, b \div 2)

RECURSIVE BitOr(_, _)
\* a | b
BitOr(a, b) ==
    IF a = 0 THEN b
    ELSE IF b = 0 THEN a
    ELSE (IF a % 2 = 1 \/ b % 2 = 1 THEN 1 ELSE 0) + 2 * BitOr(a \div 2, b \div 2)

\* 1 << k
Bit(k) ==
    2 ^ k

\* x & ~(1 << k), for x >= 0
ClearBit(x, k) ==
    IF BitAnd(x, Bit(k)) # 0 THEN x - Bit(k) ELSE x

\* faulty variant: the old bits of the field are kept
updatebyteUnmasked(byte, mask, value) ==
    BitOr(byte, value)

\* lines 20-23
updatebyte(byte, mask, value) ==
    BitOr(BitAnd(byte, mask), value)

\* ConversionMode.ONE_SHOT = 0x00
ONE_SHOT ==
    0

\* ConversionMode.CONTINUOUS = 0x10
CONTINUOUS ==
    16

\* __adc1_address = 0x68
Adc1Address ==
    104

\* __adc2_address = 0x69
Adc2Address ==
    105

\* __config_register = 0x9C
DefaultConfigRegister ==
    156

\* the bit rates the bitrate setter is called with
BitRates ==
    {12, 14, 16, 18}

\* the gains the gain setter is called with (1, 2, 4 and 8 are valid)
Gains ==
    {1, 8}

\* the channels read_raw is called with: the first and the last of each chip
AdcChannels ==
    {1, 4, 5, 8}

\* line 57
BitrateConfig(rate) ==
    CASE rate = 12 -> 0
      [] rate = 14 -> 4
      [] rate = 16 -> 8
      [] rate = 18 -> 12

\* line 71
GainConfig(gain) ==
    CASE gain = 1 -> 0
      [] gain = 2 -> 1
      [] gain = 4 -> 2
      [] gain = 8 -> 3

\* lines 104-111, in ticks of 10 microseconds
SecondsPerSample(rate) ==
    CASE rate = 18 -> 26666
      [] rate = 16 -> 6666
      [] rate = 14 -> 1666
      [] rate = 12 -> 416

\* line 112: the timeout horizon, in ticks after the clock read of line 112
TimeoutHorizon(rate) ==
    100 * SecondsPerSample(rate)

\* line 117: the number of bytes every poll asks for
BlockLength ==
    4

\* line 117: the position (from 0) of the byte unpacked into cmd_byte
CmdByteIndex ==
    BlockLength - 1

\* faulty variant: the test of line 119 looks at bit 6
ConversionReadyBit6(cmd_byte) ==
    BitAnd(cmd_byte, Bit(6)) = 0

\* line 119: (cmd_byte & (1 << 7)) == 0
ConversionReady(cmd_byte) ==
    BitAnd(cmd_byte, Bit(7)) = 0

\* lines 129-149: raw and signbit for a bit rate, from the bytes adc_reading
RawAndSign(rate, adc_reading) ==
    LET word ==
            CASE rate = 18 ->
                   BitOr(BitOr(BitAnd(adc_reading[1], 3) * Bit(16), adc_reading[2] * Bit(8)),
                         adc_reading[3])
              [] rate = 16 -> BitOr(adc_reading[1] * Bit(8), adc_reading[2])
              [] rate = 14 -> BitOr(BitAnd(adc_reading[1], 63) * Bit(8), adc_reading[2])
              [] rate = 12 -> BitOr(BitAnd(adc_reading[1], 15) * Bit(8), adc_reading[2])
    IN [signbit |-> BitAnd(word, Bit(rate - 1)) # 0, raw |-> ClearBit(word, rate - 1)]

\* lines 127-154: the value read_raw returns for the bytes adc_reading
Decode(rate, adc_reading) ==
    LET d == RawAndSign(rate, adc_reading)
    IN IF d.signbit THEN d.raw * (-1) ELSE d.raw

\* the payload bytes of a conversion at a bit rate: ceil(rate / 8)
PayloadBytes(rate) ==
    (rate + 7) \div 8

\* the big-endian bytes of a natural, most significant first
RECURSIVE BigEndian(_, _)
BigEndian(word, nbytes) ==
    IF nbytes = 0 THEN <<>>
    ELSE Append(BigEndian(word \div 256, nbytes - 1), word % 256)

\* the payload bytes the device sends for the signed value v: the rate-bit
\* two's-complement pattern of v, the unused high bits of the first byte all
\* 1 (fill) or all 0
Payload(rate, v, fill) ==
    LET pattern == v % Bit(rate)
        unused == 8 * PayloadBytes(rate) - rate
        high == IF fill THEN (Bit(unused) - 1) * Bit(rate) ELSE 0
    IN BigEndian(high + pattern, PayloadBytes(rate))

\* the signed values the device converts to
SampleValues(rate) ==
    {-Bit(rate - 1), -1, 0, 1, Bit(rate - 1) - 1}

\* a byte with the top bit set (conversion under way) and one with it clear
StatusBytes ==
    {156, 28}

\* the blocks of BlockLength bytes a poll may receive: the payload of a
\* sample, then the bytes the device sends after it
Blocks(rate) ==
    {Payload(rate, v, fill) \o rest :
        v \in SampleValues(rate), fill \in BOOLEAN,
        rest \in IF PayloadBytes(rate) = 3
                 THEN {<<s>> : s \in StatusBytes}
                 ELSE {<<s, t>> : s \in StatusBytes, t \in StatusBytes}}

\* the ADC object between two operations
IdleCall ==
    [pc |-> "idle", op |-> "none", channel |-> 0, address |-> 0, config |-> 0,
     elapsed |-> 0, polls |-> 0, adc_reading |-> <<0, 0, 0>>, cmd_byte |-> 0,
     block |-> <<>>, raw |-> 0, writes |-> <<>>, reads |-> {}]

\* ADC(0x68, 0x69, 18): the object after __init__
ConstructedADC ==
    [bitrate |-> 18,
     gain |-> 1,
     conversionmode |-> ONE_SHOT,
     config_register |-> updatebyte(DefaultConfigRegister, 243, BitrateConfig(18)),
     call |-> IdleCall]

----------------------------------------------------------------------------
(* One Channel (Software/aquisition.py).  A scaled value is the fraction   *)
(* <<numerator, denominator>> the float arithmetic of _m, _b and           *)
(* _scale_value stands for.                                                *)

\* DUMMY_CHANNEL = -1
DUMMY_CHANNEL ==
    -1

\* the configurations from_config is called with; has_bits and has_points
\* tell whether the dictionary holds the key
ChannelConfigs ==
    [has_bits : BOOLEAN,
     bits : {12, 13},
     has_points : BOOLEAN,
     calibration_points : {<< <<0, 0>>, <<2, 4>> >>, << <<0, 0>>, <<0, 5>> >>,
                           << <<1, 1>>, <<3, 1>> >>, << <<0, 0>> >>,
                           << <<0, 0, 1>>, <<2, 4>> >>},
     aggregator : {"average", "rms", "median"},
     type : {"voltage", "bogus"},
     channel : {DUMMY_CHANNEL, 1},
     samples : {1, 2}]

\* the raw samples read_raw hands to read
RawSamples ==
    {-2, 0, 3}

\* _aggregators
AggregatorNames ==
    {"average", "rms"}

\* lines 115-146: the error from_config raises for a configuration, or "none"
ConfigError(config) ==
    IF ~config.has_bits THEN "ValueError"
    ELSE IF config.bits \notin {12, 14, 16, 18} THEN "ValueError"
    ELSE IF ~config.has_points \/ Len(config.calibration_points) # 2 THEN "ValueError"
    ELSE IF \E i \in 1..Len(config.calibration_points) :
               Len(config.calibration_points[i]) # 2 THEN "ValueError"
    ELSE IF config.aggregator \notin AggregatorNames THEN "ValueError"
    ELSE IF config.type \notin {"current_phase", "current_other", "voltage"} THEN "ValueError"
    ELSE "none"

\* the read call of a channel, not under way
NoRead ==
    [pc |-> "idle", decoder |-> "none", setup |-> <<>>, raw_reads |-> <<>>,
     samples |-> <<>>, result |-> <<>>, err |-> "none"]

\* the decoders of the repository that read is handed: adc.ADC, which has the
\* properties bitrate and gain and no method set_bit_rate or set_pga, and
\* mocks.DummyAdc, which has both methods
Decoders ==
    {"ADC", "DummyAdc"}

\* no channel built yet
NoChannel ==
    [state |-> "none", channel |-> 0, bits |-> 0, gain |-> 0, samples |-> 0,
     calibration_points |-> <<>>, aggregator |-> "none", type |-> "none",
     read |-> NoRead]

\* lines 99-100: dx and dy of the calibration line
CalibrationDx(points) ==
    points[2][1] - points[1][1]

CalibrationDy(points) ==
    points[2][2] - points[1][2]

\* lines 93-110: _m * value + _b over the denominator dx, for dx # 0
ScaleValue(points, value) ==
    LET dx == CalibrationDx(points)
        dy == CalibrationDy(points)
    IN <<dy * value + (points[2][2] * dx - dy * points[2][1]), dx>>

\* line 86: the scaled samples
RECURSIVE ScaledValues(_, _)
ScaledValues(points, samples) ==
    IF samples = <<>> THEN <<>>
    ELSE <<ScaleValue(points, Head(samples))>> \o ScaledValues(points, Tail(samples))

\* the sum of the numerators, or of their squares, of fractions of one denominator
RECURSIVE SumNumerators(_, _)
SumNumerators(values, squared) ==
    IF values = <<>> THEN 0
    ELSE (IF squared THEN Head(values)[1] * Head(values)[1] ELSE Head(values)[1])
         + SumNumerators(Tail(values), squared)

\* lines 17-23: average is the fraction num / den, rms the square root of it
Aggregate(aggregator, values) ==
    LET den == values[1][2]
    IN IF aggregator = "rms"
       THEN [root |-> TRUE, num |-> SumNumerators(values, TRUE),
             den |-> den * den * Len(values)]
       ELSE [root |-> FALSE, num |-> SumNumerators(values, FALSE),
             den |-> den * Len(values)]

----------------------------------------------------------------------------
(* EnergyMeter: the threads of run() *)

\* len(self.channels), the channels one sampling cycle reads
NumChannels ==
    2

\* the acquisition threads that can exist side by side
ThreadSlots ==
    {1, 2}

\* a thread object: pc is "none" (no object), "created" (line 155, not
\* started), a line of read_channels, "reading" (inside channel.read),
\* "waiting" (inside should_stop.wait), "returned" or "raised"; i counts the
\* channels read in the cycle; late holds the positions in the channel list
\* of the reads the thread started with the stop flag set, and cycle tells
\* that it started a sampling cycle with the flag set
NoThread ==
    [pc |-> "none", i |-> 0, late |-> {}, cycle |-> FALSE, err |-> "none"]

\* threading.Thread.is_alive()
IsAlive(thread) ==
    thread.pc \notin {"none", "created", "returned", "raised"}

\* the meter after load_config and initialize, run() not yet called;
\* reader_thread 0 is None
MeterBeforeRun ==
    [should_stop |-> FALSE, main |-> "l159", err |-> "none", reader_thread |-> 0,
     threads |-> [k \in ThreadSlots |-> NoThread]]

----------------------------------------------------------------------------
(* EnergyStatistics.__init__ *)

\* line 30: the test that guards the single voltage channel
TooManyVoltageChannels(n) ==
    0 <= n /\ n >= 2

IdleWriter ==
    [pc |-> "idle", map |-> <<>>, i |-> 0, index |-> 0, result |-> "none",
     reset |-> FALSE, calls |-> 0,
     pre |-> [ts |-> <<>>, cur |-> <<>>, volt |-> <<>>, idx |-> 0, today |-> 0]]

IdleReader ==
    [pc |-> "idle", op |-> "none", name |-> "None", bins |-> 0, chs |-> <<>>,
     idx |-> 0, a |-> <<>>, b |-> <<>>, ret |-> <<>>, err |-> "none",
     g |-> 0, torn |-> FALSE, after |-> -1]

Init ==
    /\ engine = "none"
    /\ channels = <<>>
    /\ current_channels = <<>>
    /\ num_phase_current_channels = 0
    /\ voltage_channel = "none"
    /\ temporal_resolution = 0
    /\ now = 0
    /\ today = 0
    /\ timestamps = <<>>
    /\ current_readings = <<>>
    /\ voltage_readings = <<>>
    /\ current_reading_index = 0
    /\ gen = [ts |-> 0, cur |-> 0, volt |-> 0, idx |-> 0]
    /\ lock = NoLock
    /\ w = IdleWriter
    /\ r = IdleReader
    /\ adc = ConstructedADC
    /\ chan = NoChannel
    /\ meter = MeterBeforeRun

\* __init__(channels, time_between_reads) at instant t of the first day
Construct(channel_list, step, t) ==
    /\ engine = "none"
    /\ now' = t
    /\ channels' = channel_list
    /\ current_channels' =
          OfType(channel_list, "current_phase") \o OfType(channel_list, "current_other")
    /\ num_phase_current_channels' = Len(OfType(channel_list, "current_phase"))
    /\ LET voltage_channels == OfType(channel_list, "voltage") IN
       IF TooManyVoltageChannels(Len(voltage_channels))
       THEN \* line 31: raise ValueError("Only supports a single voltage channel")
            /\ engine' = "ValueError"
            /\ UNCHANGED <<voltage_channel, temporal_resolution, buffer_vars>>
       ELSE IF Len(voltage_channels) = 0
       THEN \* line 32: voltage_channels[0] raises IndexError
            /\ engine' = "IndexError"
            /\ UNCHANGED <<voltage_channel, temporal_resolution, buffer_vars>>
       ELSE /\ engine' = "ok"
            /\ voltage_channel' = voltage_channels[1]
            /\ temporal_resolution' = step
            \* line 35: self._reset_daily_statistics()
            /\ today' = DayOf(t)
            /\ timestamps' = ResetTimestamps(t, step)
            /\ current_readings' = ResetCurrentReadings(current_channels', timestamps')
            /\ voltage_readings' = ResetVoltageReadings(timestamps')
            /\ current_reading_index' = StartIndex(t, DayOf(t), step)
            /\ gen' = [ts |-> 1, cur |-> 1, volt |-> 1, idx |-> 1]
    /\ UNCHANGED <<meter, hardware_vars, lock, w, r>>

----------------------------------------------------------------------------
(* EnergyStatistics.add_reading, statement by statement (the acquisition   *)
(* thread).  w.pc names the line the thread executes next, w.reset tells   *)
(* whether the call reset the buffer, and in a traced call w.pre keeps the *)
(* buffer as the call found it.                                            *)

Snapshot ==
    [ts |-> timestamps, cur |-> current_readings, volt |-> voltage_readings,
     idx |-> current_reading_index, today |-> today]

\* the exception leaves the with block: the lock is released, the call ends
Raise(error) ==
    /\ w' = [w EXCEPT !.pc = "idle", !.result = error]
    /\ lock' = Released

NoSnapshot ==
    [ts |-> <<>>, cur |-> <<>>, volt |-> <<>>, idx |-> 0, today |-> 0]

\* a call of add_reading(reading_map) at instant t.  Line 67: with
\* self._lock; line 69: if self.timestamps[-1] < datetime.datetime.now();
\* without a reset, lines 73-75: index = self.current_reading_index (past
\* the end of the buffer a warning is logged and the call goes on)
AddReadingCall(reading_map, t, traced) ==
    /\ engine = "ok"
    /\ w.pc = "idle"
    /\ w.calls < MaxCalls
    /\ CanAcquire("w")
    /\ lock' = Acquired("w")
    /\ t >= now
    /\ now' = t
    /\ w' = [w EXCEPT !.pc = IF IsNewDay(timestamps, t) THEN "r38" ELSE "a77",
                      !.map = reading_map, !.i = 1,
                      !.index = current_reading_index,
                      !.result = "running",
                      !.reset = IsNewDay(timestamps, t),
                      !.calls = w.calls + 1,
                      !.pre = IF traced THEN Snapshot ELSE NoSnapshot]
    /\ UNCHANGED <<meter, hardware_vars, config_vars, buffer_vars, r>>

\* lines 38-50
ResetStepTimestamps ==
    /\ w.pc = "r38"
    /\ today' = DayOf(now)
    /\ timestamps' = ResetTimestamps(now, temporal_resolution)
    /\ gen' = [gen EXCEPT !.ts = gen.ts + 1]
    /\ w' = [w EXCEPT !.pc = "r54"]
    /\ UNCHANGED <<meter, hardware_vars, config_vars, now, current_readings, voltage_readings,
                   current_reading_index, lock, r>>

\* lines 52-56
ResetStepCurrentReadings ==
    /\ w.pc = "r54"
    /\ current_readings' = ResetCurrentReadings(current_channels, timestamps)
    /\ gen' = [gen EXCEPT !.cur = gen.cur + 1]
    /\ w' = [w EXCEPT !.pc = "r57"]
    /\ UNCHANGED <<meter, hardware_vars, config_vars, now, today, timestamps, voltage_readings,
                   current_reading_index, lock, r>>

\* faulty variant: the reset keeps the voltage row
ResetStepKeepsVoltageReadings ==
    /\ w.pc = "r57"
    /\ w' = [w EXCEPT !.pc = "r62"]
    /\ UNCHANGED <<meter, hardware_vars, config_vars, now, buffer_vars, lock, r>>

\* lines 57-59
ResetStepVoltageReadings ==
    /\ w.pc = "r57"
    /\ voltage_readings' = ResetVoltageReadings(timestamps)
    /\ gen' = [gen EXCEPT !.volt = gen.volt + 1]
    /\ w' = [w EXCEPT !.pc = "r62"]
    /\ UNCHANGED <<meter, hardware_vars, config_vars, now, today, timestamps, current_readings,
                   current_reading_index, lock, r>>

\* lines 61-64, and back in add_reading lines 73-75
ResetStepIndex ==
    /\ w.pc = "r62"
    /\ current_reading_index' = StartIndex(now, today, temporal_resolution)
    /\ gen' = [gen EXCEPT !.idx = gen.idx + 1]
    /\ w' = [w EXCEPT !.pc = "a77", !.index = current_reading_index']
    /\ UNCHANGED <<meter, hardware_vars, config_vars, now, today, timestamps, current_readings,
                   voltage_readings, lock, r>>

\* a numpy item assignment at slot index: IndexError past the end
SlotInRange(index) ==
    0 <= index /\ index < Len(timestamps)

\* the line after the loop's turn w.i
AfterItem ==
    IF w.i < Len(w.map) THEN "a77" ELSE "a87"

\* lines 77-84: one turn of the loop over reading_map.items()
AddReadingItem ==
    /\ w.pc = "a77"
    /\ w.i <= Len(w.map)
    /\ LET channel == w.map[w.i][1]
           value == w.map[w.i][2]
       IN
       IF channel \in Range(current_channels)
       THEN IF SlotInRange(w.index)
            THEN /\ current_readings' =
                      [current_readings EXCEPT
                         ![IndexOf(current_channels, channel)] = Put(@, w.index, value)]
                 /\ w' = [w EXCEPT !.i = w.i + 1, !.pc = AfterItem]
                 /\ UNCHANGED <<voltage_readings, lock>>
            ELSE /\ Raise("IndexError")
                 /\ UNCHANGED <<current_readings, voltage_readings>>
       ELSE IF channel = voltage_channel
       THEN IF SlotInRange(w.index)
            THEN /\ voltage_readings' = Put(voltage_readings, w.index, value)
                 /\ w' = [w EXCEPT !.i = w.i + 1, !.pc = AfterItem]
                 /\ UNCHANGED <<current_readings, lock>>
            ELSE /\ Raise("IndexError")
                 /\ UNCHANGED <<current_readings, voltage_readings>>
       ELSE \* line 84: raise ValueError(f"unknown channel: {channel.name}")
            /\ Raise("ValueError")
            /\ UNCHANGED <<current_readings, voltage_readings>>
    /\ UNCHANGED <<meter, hardware_vars, config_vars, now, today, timestamps, current_reading_index, gen, r>>

\* faulty variant: the slot keeps its nominal time
AddReadingKeepsTimestamp ==
    /\ w.pc = "a87"
    /\ w' = [w EXCEPT !.pc = "a89"]
    /\ UNCHANGED <<meter, hardware_vars, config_vars, now, today, timestamps, current_readings,
                   voltage_readings, current_reading_index, gen, lock, r>>

\* line 87: self.timestamps[index] = datetime.datetime.now()
AddReadingTimestamp ==
    /\ w.pc = "a87"
    /\ IF SlotInRange(w.index)
       THEN /\ timestamps' = Put(timestamps, w.index, now)
            /\ w' = [w EXCEPT !.pc = "a89"]
            /\ UNCHANGED lock
       ELSE /\ Raise("IndexError")
            /\ UNCHANGED timestamps
    /\ UNCHANGED <<meter, hardware_vars, config_vars, now, today, current_readings, voltage_readings,
                   current_reading_index, gen, r>>

\* faulty variant: the call returns without advancing the cursor
AddReadingKeepsCursor ==
    /\ w.pc = "a89"
    /\ lock' = Released
    /\ w' = [w EXCEPT !.pc = "idle", !.result = "ok"]
    /\ UNCHANGED <<meter, hardware_vars, config_vars, now, today, timestamps, current_readings,
                   voltage_readings, current_reading_index, gen, r>>

\* line 89: self.current_reading_index += 1, and the with block ends
AddReadingAdvance ==
    /\ w.pc = "a89"
    /\ current_reading_index' = current_reading_index + 1
    /\ lock' = Released
    /\ w' = [w EXCEPT !.pc = "idle", !.result = "ok"]
    /\ UNCHANGED <<meter, hardware_vars, config_vars, now, today, timestamps, current_readings,
                   voltage_readings, gen, r>>

----------------------------------------------------------------------------
(* The queries as functions of what they read *)

\* watt-seconds per watt-hour: the divisor of power_history
WsPerWh ==
    3600

\* x / 3600, kept as the fraction <<numerator, denominator>>
Div3600(x) ==
    <<x, WsPerWh>>

\* the names a query is called with; "None" is Python's None
QueryNames ==
    {"None", "o1", "zz"}

\* the bin counts a history query is called with
BinCounts ==
    {1, 2}

KnownName(channel_name) ==
    channel_name = "None" \/ channel_name \in Range(current_channels)

\* faulty variant: no name selects every current row, the other-current ones too
GetEveryCurrentChannelForName(channel_name) ==
    IF channel_name = "None"
    THEN [i \in 1..Len(current_channels) |-> i]
    ELSE <<IndexOf(current_channels, channel_name)>>

\* get_current_channels_for_name: the rows a channel name selects
GetCurrentChannelsForName(channel_name) ==
    IF channel_name = "None"
    THEN [i \in 1..num_phase_current_channels |-> i]
    ELSE <<IndexOf(current_channels, channel_name)>>

SeqMin(s) ==
    CHOOSE x \in Range(s) : \A y \in Range(s) : x <= y

SeqMax(s) ==
    CHOOSE x \in Range(s) : \A y \in Range(s) : x >= y

\* scipy.stats.binned_statistic: the bin (from 1) of x among `bins` equal
\* bins over [min(xs), max(xs)]; the last bin holds its right edge, and a
\* range of width 0 is widened by 0.5 on each side
BinOf(x, xs, bins) ==
    LET lo == SeqMin(xs)
        hi == SeqMax(xs)
    IN IF lo = hi THEN (bins \div 2) + 1
       ELSE IF x = hi THEN bins
       ELSE (((x - lo) * bins) \div (hi - lo)) + 1

\* the values that fall into bin k
InBin(values, xs, bins, k) ==
    SelectAt(values, [i \in 1..Len(xs) |-> BinOf(xs[i], xs, bins) = k])

\* np.nanmean, kept as <<sum, count>>; NaN for no value at all
NanMean(s) ==
    LET kept == SelectAt(s, [i \in 1..Len(s) |-> ~IsNaN(s[i])])
    IN IF kept = <<>> THEN NaN ELSE <<SeqSum(kept), Len(kept)>>

\* s[:-1]
ButLast(s) ==
    SubSeq(s, 1, Len(s) - 1)

\* faulty variant: the time deltas are not clipped
TimeDeltasUnclipped(ts) ==
    [i \in 1..(Len(ts) - 1) |-> ts[i + 1] - ts[i]]

\* line 127: np.clip(timestamps[1:] - timestamps[:-1], 0, None)
TimeDeltas(ts) ==
    [i \in 1..(Len(ts) - 1) |-> IF ts[i + 1] - ts[i] < 0 THEN 0 ELSE ts[i + 1] - ts[i]]

\* line 130: np.sum(current_readings[indices], axis=0)
TotalCurrent(cur, indices, n) ==
    [j \in 1..n |-> FSum([k \in 1..Len(indices) |-> cur[indices[k]][j]])]

\* line 133: total_current[:-1] * voltage_readings[:-1] * timedeltas
SlotPower(total, volt, deltas) ==
    [i \in 1..Len(deltas) |-> FMul(FMul(total[i], volt[i]), deltas[i])]

\* lines 134-138: binned_statistic(timestamps[:-1], power, np.nansum, bins) / 3600
BinnedPower(ts, power, bins) ==
    [k \in 1..bins |-> Div3600(NanSum(InBin(power, ButLast(ts), bins, k)))]

\* power_history on one state of the buffer
PowerHistoryOf(ts, cur, volt, bins, channel_name) ==
    BinnedPower(ts,
                SlotPower(TotalCurrent(cur, GetCurrentChannelsForName(channel_name), Len(ts)),
                          volt, TimeDeltas(ts)),
                bins)

\* float(np.sum(history)) of fractions over 3600
SumOfBins(history) ==
    Div3600(SeqSum([k \in 1..Len(history) |-> history[k][1]]))

\* binned_statistic(timestamps, rows, np.nanmean, bins): per row, per bin
BinnedMeans(ts, rows, bins) ==
    [row \in 1..Len(rows) |-> [k \in 1..bins |-> NanMean(InBin(rows[row], ts, bins, k))]]

----------------------------------------------------------------------------
(* The query thread.  r.pc names the line it executes next; r.a, r.b are   *)
(* its local arrays, r.g the generation of the cursor it has read, r.torn  *)
(* whether it then read a row of another generation, and r.after the       *)
(* add_reading call it started after (-1 inside a call or a failed one).  A*)
(* call is one step with its first access to the engine: the lookup of the *)
(* channel name reads what the constructor set and nothing changes later.  *)

\* faulty variant: power_history reads without the lock
TakesLockButPowerHistory(op) ==
    op \in {"daily_power", "current_history", "voltage_history"}

\* faulty variant: daily_power calls power_history without holding the lock
TakesLockButDailyPower(op) ==
    op \in {"power_history", "current_history", "voltage_history"}

\* the operations that take self._lock (a with self._lock block)
TakesLock(op) ==
    op \in {"daily_power", "power_history", "current_history", "voltage_history"}

\* a with self._lock block of operation op can be entered
MayEnter(op) ==
    TakesLock(op) => CanAcquire("r")

\* the lock after entering it
Entered(op) ==
    IF TakesLock(op) THEN Acquired("r") ELSE lock

\* the lock after leaving it
Left(op) ==
    IF TakesLock(op) THEN Released ELSE lock

Called(op, channel_name, bins) ==
    [IdleReader EXCEPT
       !.op = op, !.name = channel_name, !.bins = bins,
       !.after = IF w.pc = "idle" /\ w.result = "ok" THEN w.calls ELSE -1]

Raised(call, error) ==
    [call EXCEPT !.err = error, !.pc = "raised"]

\* live_power(channel_name), lines 144-145:
\* last_reading_index = self.current_reading_index - 1
LivePowerCall(channel_name) ==
    /\ engine = "ok"
    /\ r.pc = "idle"
    /\ LET call == Called("live_power", channel_name, 0) IN
       IF KnownName(channel_name)
       THEN r' = [call EXCEPT !.chs = GetCurrentChannelsForName(channel_name),
                              !.idx = current_reading_index - 1,
                              !.g = gen.idx,
                              !.pc = "lp146"]
       ELSE r' = Raised(call, "ValueError")
    /\ UNCHANGED <<meter, hardware_vars, config_vars, now, buffer_vars, lock, w>>

\* live_voltage(), line 156
LiveVoltageCall ==
    /\ engine = "ok"
    /\ r.pc = "idle"
    /\ r' = [Called("live_voltage", "None", 0) EXCEPT
               !.idx = current_reading_index - 1,
               !.g = gen.idx,
               !.pc = "lv157"]
    /\ UNCHANGED <<meter, hardware_vars, config_vars, now, buffer_vars, lock, w>>

\* lines 146-148: np.sum(self.current_readings[indices, last_reading_index])
LivePowerCurrent ==
    /\ r.pc = "lp146"
    /\ LET n == Len(voltage_readings) IN
       IF NpInRange(r.idx, n)
       THEN r' = [r EXCEPT
                    !.a = FSum([k \in 1..Len(r.chs) |->
                                  At(current_readings[r.chs[k]], NpIndex(r.idx, n))]),
                    !.torn = (gen.cur # r.g),
                    !.pc = "lp149"]
       ELSE r' = Raised(r, "IndexError")
    /\ UNCHANGED <<meter, hardware_vars, config_vars, now, buffer_vars, lock, w>>

\* lines 149-150 / 157-158: last_voltage = self.voltage_readings[index]; return
LiveVoltage ==
    /\ r.pc \in {"lp149", "lv157"}
    /\ LET n == Len(voltage_readings) IN
       IF NpInRange(r.idx, n)
       THEN LET last_voltage == At(voltage_readings, NpIndex(r.idx, n)) IN
            r' = [r EXCEPT
                    !.ret = IF r.pc = "lp149" THEN FMul(r.a, last_voltage) ELSE last_voltage,
                    !.torn = (r.torn \/ gen.volt # r.g),
                    !.a = <<>>, !.idx = 0, !.g = 0, !.chs = <<>>,
                    !.pc = "returned"]
       ELSE r' = Raised(r, "IndexError")
    /\ UNCHANGED <<meter, hardware_vars, config_vars, now, buffer_vars, lock, w>>

\* daily_power(channel_name), line 112: with self._lock, then the call of
\* power_history(1, channel_name) and its line 124; an unknown name leaves
\* the with block by ValueError
DailyPowerCall(channel_name) ==
    /\ engine = "ok"
    /\ r.pc = "idle"
    /\ MayEnter("daily_power")
    /\ LET call == Called("daily_power", channel_name, 1) IN
       IF KnownName(channel_name)
       THEN /\ lock' = Entered("daily_power")
            /\ r' = [call EXCEPT !.chs = GetCurrentChannelsForName(channel_name),
                                 !.pc = "ph126"]
       ELSE /\ UNCHANGED lock
            /\ r' = Raised(call, "ValueError")
    /\ UNCHANGED <<meter, hardware_vars, config_vars, now, buffer_vars, w>>

\* power_history(num_bins, channel_name), lines 124-126
PowerHistoryCall(bins, channel_name) ==
    /\ engine = "ok"
    /\ r.pc = "idle"
    /\ LET call == Called("power_history", channel_name, bins) IN
       IF KnownName(channel_name)
       THEN /\ MayEnter("power_history")
            /\ lock' = Entered("power_history")
            /\ r' = [call EXCEPT !.chs = GetCurrentChannelsForName(channel_name),
                                 !.pc = "ph127"]
       ELSE /\ UNCHANGED lock
            /\ r' = Raised(call, "ValueError")
    /\ UNCHANGED <<meter, hardware_vars, config_vars, now, buffer_vars, w>>

\* line 126, reached from daily_power: with self._lock
PowerHistoryEnter ==
    /\ r.pc = "ph126"
    /\ MayEnter("power_history")
    /\ lock' = Entered("power_history")
    /\ r' = [r EXCEPT !.pc = "ph127"]
    /\ UNCHANGED <<meter, hardware_vars, config_vars, now, buffer_vars, w>>

\* lines 127-129
PowerHistoryDeltas ==
    /\ r.pc = "ph127"
    /\ r' = [r EXCEPT !.a = TimeDeltas(timestamps), !.pc = "ph130"]
    /\ UNCHANGED <<meter, hardware_vars, config_vars, now, buffer_vars, lock, w>>

\* lines 130-132
PowerHistoryCurrent ==
    /\ r.pc = "ph130"
    /\ r' = [r EXCEPT !.b = TotalCurrent(current_readings, r.chs, Len(voltage_readings)),
                      !.pc = "ph133"]
    /\ UNCHANGED <<meter, hardware_vars, config_vars, now, buffer_vars, lock, w>>

\* line 133
PowerHistoryPower ==
    /\ r.pc = "ph133"
    /\ r' = [r EXCEPT !.a = SlotPower(r.b, voltage_readings, r.a), !.b = <<>>,
                      !.pc = "ph134"]
    /\ UNCHANGED <<meter, hardware_vars, config_vars, now, buffer_vars, lock, w>>

\* lines 134-138: the statistic, divided by 3600
PowerHistoryBins ==
    /\ r.pc = "ph134"
    /\ r' = [r EXCEPT !.ret = BinnedPower(timestamps, r.a, r.bins), !.a = <<>>,
                      !.pc = "ph138"]
    /\ UNCHANGED <<meter, hardware_vars, config_vars, now, buffer_vars, lock, w>>

\* line 138: return, leaving the with block of line 126
PowerHistoryReturn ==
    /\ r.pc = "ph138"
    /\ lock' = Left("power_history")
    /\ r' = IF r.op = "daily_power" THEN [r EXCEPT !.pc = "dp113"] ELSE IdleReader
    /\ UNCHANGED <<meter, hardware_vars, config_vars, now, buffer_vars, w>>

\* lines 113-115: float(np.sum(...))
DailyPowerSum ==
    /\ r.pc = "dp113"
    /\ r' = [r EXCEPT !.ret = SumOfBins(r.ret), !.pc = "dp115"]
    /\ UNCHANGED <<meter, hardware_vars, config_vars, now, buffer_vars, lock, w>>

\* the return leaves the with block of line 112
DailyPowerReturn ==
    /\ r.pc = "dp115"
    /\ lock' = Left("daily_power")
    /\ r' = IdleReader
    /\ UNCHANGED <<meter, hardware_vars, config_vars, now, buffer_vars, w>>

\* current_history(num_bins), lines 161-163: with self._lock, then
\* self.timestamps.astype(np.uint64)
CurrentHistoryCall(bins) ==
    /\ engine = "ok"
    /\ r.pc = "idle"
    /\ MayEnter("current_history")
    /\ lock' = Entered("current_history")
    /\ r' = [Called("current_history", "None", bins) EXCEPT !.pc = "ch163"]
    /\ UNCHANGED <<meter, hardware_vars, config_vars, now, buffer_vars, w>>

\* voltage_history(num_bins), lines 175-177
VoltageHistoryCall(bins) ==
    /\ engine = "ok"
    /\ r.pc = "idle"
    /\ MayEnter("voltage_history")
    /\ lock' = Entered("voltage_history")
    /\ r' = [Called("voltage_history", "None", bins) EXCEPT !.pc = "vh177"]
    /\ UNCHANGED <<meter, hardware_vars, config_vars, now, buffer_vars, w>>

\* lines 163 / 177: self.timestamps.astype(np.uint64)
HistoryTimestamps ==
    /\ r.pc \in {"ch163", "vh177"}
    /\ r' = [r EXCEPT !.a = timestamps, !.pc = IF r.pc = "ch163" THEN "ch164" ELSE "vh178"]
    /\ UNCHANGED <<meter, hardware_vars, config_vars, now, buffer_vars, lock, w>>

\* lines 164-172: the means of self.current_readings, by channel
CurrentHistoryMeans ==
    /\ r.pc = "ch164"
    /\ r' = [r EXCEPT !.ret = BinnedMeans(r.a, current_readings, r.bins), !.a = <<>>,
                      !.pc = "ch169"]
    /\ UNCHANGED <<meter, hardware_vars, config_vars, now, buffer_vars, lock, w>>

\* lines 178-182: the statistic of self.current_readings, under the voltage channel
VoltageHistoryMeans ==
    /\ r.pc = "vh178"
    /\ r' = [r EXCEPT !.ret = BinnedMeans(r.a, current_readings, r.bins), !.a = <<>>,
                      !.pc = "vh182"]
    /\ UNCHANGED <<meter, hardware_vars, config_vars, now, buffer_vars, lock, w>>

\* the return of current_history / voltage_history leaves the with block
HistoryReturn ==
    /\ r.pc \in {"ch169", "vh182"}
    /\ lock' = Left(r.op)
    /\ r' = IdleReader
    /\ UNCHANGED <<meter, hardware_vars, config_vars, now, buffer_vars, w>>

\* the caller of live_power / live_voltage has the result, or a caller the
\* exception; the thread calls again later
QueryDone ==
    /\ r.pc \in {"returned", "raised"}
    /\ r' = IdleReader
    /\ UNCHANGED <<meter, hardware_vars, config_vars, now, buffer_vars, lock, w>>

----------------------------------------------------------------------------
(* The operations of the ADC object.  adc.call holds the operation last    *)
(* begun: its position, the locals of read_raw, the bus writes it made     *)
(* (with the number of polling reads made before each) and the bus reads.  *)

\* short polls of one read_raw call (polls that take one tick)
MaxShortPolls ==
    2

\* line 125: time.sleep(0.00001), in ticks
SleepTicks ==
    1

\* the time one turn of the polling loop takes: the sleep alone, or a bus
\* read that takes 0.6 of the conversion timeout
PollTicks(rate) ==
    {SleepTicks, 60 * SecondsPerSample(rate)}

BusWrite(address, byte, reads_before) ==
    [address |-> address, byte |-> byte, reads_before |-> reads_before]

NoOperationUnderWay ==
    adc.call.pc \in {"idle", "returned", "raised"}

\* lines 53-61: the bitrate setter
SetBitrate(rate) ==
    /\ NoOperationUnderWay
    /\ LET register == updatebyte(adc.config_register, 243, BitrateConfig(rate)) IN
       adc' = [adc EXCEPT
                 !.bitrate = rate,
                 !.config_register = register,
                 !.call = [IdleCall EXCEPT
                             !.pc = "returned", !.op = "bitrate",
                             !.writes = <<BusWrite(Adc1Address, register, 0),
                                          BusWrite(Adc2Address, register, 0)>>]]
    /\ UNCHANGED <<engine_vars, chan, meter>>

\* lines 67-75: the gain setter
SetGain(gain) ==
    /\ NoOperationUnderWay
    /\ LET register == updatebyte(adc.config_register, 252, GainConfig(gain)) IN
       adc' = [adc EXCEPT
                 !.gain = gain,
                 !.config_register = register,
                 !.call = [IdleCall EXCEPT
                             !.pc = "returned", !.op = "gain",
                             !.writes = <<BusWrite(Adc1Address, register, 0),
                                          BusWrite(Adc2Address, register, 0)>>]]
    /\ UNCHANGED <<engine_vars, chan, meter>>

\* lines 81-84: the conversion_mode setter
SetConversionMode(mode) ==
    /\ NoOperationUnderWay
    /\ adc' = [adc EXCEPT
                 !.conversionmode = mode,
                 !.config_register = updatebyte(adc.config_register, 239, mode),
                 !.call = [IdleCall EXCEPT !.pc = "returned", !.op = "conversion_mode"]]
    /\ UNCHANGED <<engine_vars, chan, meter>>

\* faulty variant: read_raw starts a conversion in either mode
ReadRawAlwaysStarts(channel) ==
    /\ NoOperationUnderWay
    /\ LET config == updatebyte(adc.config_register, 159, 32 * ((channel - 1) % 4))
           address == IF channel <= 4 THEN Adc1Address ELSE Adc2Address
       IN adc' = [adc EXCEPT
                    !.call = [IdleCall EXCEPT
                                !.pc = "l117", !.op = "read_raw",
                                !.channel = channel,
                                !.address = address,
                                !.config = config,
                                !.writes = <<BusWrite(address, BitOr(config, Bit(7)), 0)>>]]
    /\ UNCHANGED <<engine_vars, chan, meter>>

\* lines 86-115: read_raw(channel) up to the polling loop
ReadRawCall(channel) ==
    /\ NoOperationUnderWay
    /\ LET channel_on_chip == (channel - 1) % 4
           channel_address == 32 * channel_on_chip
           config == updatebyte(adc.config_register, 159, channel_address)
           address == IF channel <= 4 THEN Adc1Address ELSE Adc2Address
       IN adc' = [adc EXCEPT
                    !.call = [IdleCall EXCEPT
                                !.pc = "l117", !.op = "read_raw",
                                !.channel = channel,
                                !.address = address,
                                !.config = config,
                                !.writes =
                                    IF adc.conversionmode = ONE_SHOT
                                    THEN <<BusWrite(address, BitOr(config, Bit(7)), 0)>>
                                    ELSE <<>>]]
    /\ UNCHANGED <<engine_vars, chan, meter>>

\* lines 116-154: one turn of the polling loop; at conversion-complete the
\* decoding and the return
AdcPollOf(blocks) ==
    /\ adc.call.pc = "l117"
    /\ \E block \in blocks, ticks \in PollTicks(adc.bitrate) :
          /\ ticks = SleepTicks => adc.call.polls < MaxShortPolls
          /\ LET adc_reading == SubSeq(block, 1, BlockLength - 1)
                 cmd_byte == block[CmdByteIndex + 1]
                 elapsed == adc.call.elapsed + ticks
                 polled == [adc.call EXCEPT
                              !.adc_reading = adc_reading,
                              !.cmd_byte = cmd_byte,
                              !.block = block,
                              !.elapsed = elapsed,
                              !.polls = @ + 1,
                              !.reads = @ \cup {[address |-> adc.call.address,
                                                 cmd |-> adc.call.config,
                                                 length |-> BlockLength]}]
             IN adc' = [adc EXCEPT !.call =
                   IF ConversionReady(cmd_byte)
                   THEN [polled EXCEPT !.pc = "returned",
                                       !.raw = Decode(adc.bitrate, adc_reading)]
                   ELSE IF elapsed > TimeoutHorizon(adc.bitrate)
                   THEN \* line 122: raise TimeoutError
                        [polled EXCEPT !.pc = "raised"]
                   ELSE polled]
    /\ UNCHANGED <<engine_vars, chan, meter>>

\* a turn of the polling loop, the device sending any of Blocks
AdcPoll ==
    AdcPollOf(Blocks(adc.bitrate))

\* a turn of the polling loop, the device sending the payload of 0 or of -1
AdcPollFew ==
    AdcPollOf({block \in Blocks(adc.bitrate) :
                  \E v \in {0, -1} :
                     SubSeq(block, 1, PayloadBytes(adc.bitrate))
                        = Payload(adc.bitrate, v, FALSE)})

----------------------------------------------------------------------------
(* Channel.from_config and Channel.read *)

\* lines 112-150
FromConfig(config) ==
    /\ chan.state = "none"
    /\ chan' =
          IF ConfigError(config) # "none"
          THEN [NoChannel EXCEPT !.state = ConfigError(config)]
          ELSE [state |-> "ok", channel |-> config.channel, bits |-> config.bits,
                gain |-> 1, samples |-> config.samples,
                calibration_points |-> config.calibration_points,
                aggregator |-> config.aggregator, type |-> config.type,
                read |-> NoRead]
    /\ UNCHANGED <<engine_vars, adc, meter>>

\* lines 74-79: read(adc) up to the sampling loop
ChannelReadCall(decoder) ==
    /\ chan.state = "ok"
    /\ chan.read.pc \in {"idle", "returned", "raised"}
    /\ chan' = [chan EXCEPT !.read =
          IF chan.channel = DUMMY_CHANNEL
          THEN \* line 76: return self.static_value
               [NoRead EXCEPT !.pc = "returned", !.decoder = decoder,
                              !.result = [root |-> FALSE, num |-> NaN, den |-> 1]]
          ELSE IF decoder = "ADC"
          THEN \* line 90: adc.set_bit_rate is no attribute of adc.ADC
               [NoRead EXCEPT !.pc = "raised", !.decoder = decoder,
                              !.err = "AttributeError"]
          ELSE \* lines 89-91: adc.set_bit_rate(self.bits); adc.set_pga(self.gain)
               [NoRead EXCEPT !.pc = "l80", !.decoder = decoder,
                              !.setup = <<<<"set_bit_rate", chan.bits>>,
                                          <<"set_pga", chan.gain>>>>]]
    /\ UNCHANGED <<engine_vars, adc, meter>>

\* lines 80-81: samples.append(adc.read_raw(self.channel))
ChannelReadSample ==
    /\ chan.read.pc = "l80"
    /\ \E sample \in RawSamples :
          chan' = [chan EXCEPT
                     !.read.raw_reads = Append(@, chan.channel),
                     !.read.samples = Append(@, sample),
                     !.read.pc = IF Len(chan.read.samples) + 1 = chan.samples
                                 THEN "l86" ELSE "l80"]
    /\ UNCHANGED <<engine_vars, adc, meter>>

\* line 81: adc.read_raw raises
ChannelReadTimeout ==
    /\ chan.read.pc = "l80"
    /\ chan' = [chan EXCEPT !.read.raw_reads = Append(@, chan.channel),
                            !.read.pc = "raised", !.read.err = "TimeoutError"]
    /\ UNCHANGED <<engine_vars, adc, meter>>

\* lines 86-87: scale every sample, aggregate, return
ChannelScale ==
    /\ chan.read.pc = "l86"
    /\ chan' = [chan EXCEPT !.read =
          IF CalibrationDx(chan.calibration_points) = 0
          THEN \* line 101: dy / dx
               [@ EXCEPT !.pc = "raised", !.err = "ZeroDivisionError"]
          ELSE [@ EXCEPT !.pc = "returned",
                         !.result = Aggregate(chan.aggregator,
                                       ScaledValues(chan.calibration_points,
                                                    chan.read.samples))]]
    /\ UNCHANGED <<engine_vars, adc, meter>>

----------------------------------------------------------------------------
(* EnergyMeter.run, supervise_reader_thread and read_channels.  meter.main *)
(* names the line the main thread executes next.  What channel.read and    *)
(* add_reading do is modelled above; here they return or raise.            *)

\* lines 159-160
Run ==
    /\ meter.main = "l159"
    /\ meter' = [meter EXCEPT !.should_stop = FALSE, !.main = "l163"]
    /\ UNCHANGED <<engine_vars, hardware_vars>>

\* line 163: while not self.should_stop.is_set()
MainLoopTest ==
    /\ meter.main = "l163"
    /\ meter' = [meter EXCEPT !.main = IF meter.should_stop THEN "done" ELSE "l154"]
    /\ UNCHANGED <<engine_vars, hardware_vars>>

\* the slot of a new thread object: one that holds no live thread, and not
\* the one self.reader_thread refers to while another is free
NewSlot ==
    LET free == {k \in ThreadSlots : ~IsAlive(meter.threads[k])}
    IN IF free \ {meter.reader_thread} # {}
       THEN CHOOSE k \in free \ {meter.reader_thread} : TRUE
       ELSE CHOOSE k \in free : TRUE

\* faulty variant: a new thread at every iteration
SuperviseAlwaysCreates ==
    /\ meter.main = "l154"
    /\ \E k \in ThreadSlots : ~IsAlive(meter.threads[k])
    /\ meter' = [meter EXCEPT !.reader_thread = NewSlot,
                              !.threads[NewSlot] = [NoThread EXCEPT !.pc = "created"],
                              !.main = "l156"]
    /\ UNCHANGED <<engine_vars, hardware_vars>>

\* lines 154-155: the test of supervise_reader_thread and the new Thread
SuperviseReaderThread ==
    /\ meter.main = "l154"
    /\ IF meter.reader_thread = 0 \/ ~IsAlive(meter.threads[meter.reader_thread])
       THEN meter' = [meter EXCEPT !.reader_thread = NewSlot,
                                   !.threads[NewSlot] = [NoThread EXCEPT !.pc = "created"],
                                   !.main = "l156"]
       ELSE meter' = [meter EXCEPT !.main = "l165"]
    /\ UNCHANGED <<engine_vars, hardware_vars>>

\* line 156: self.reader_thread.start()
StartReaderThread ==
    /\ meter.main = "l156"
    /\ meter' = [meter EXCEPT !.threads[meter.reader_thread].pc = "l99",
                              !.main = "l165"]
    /\ UNCHANGED <<engine_vars, hardware_vars>>

\* line 165: self.update_display()
UpdateDisplay ==
    /\ meter.main = "l165"
    /\ meter' = [meter EXCEPT !.main = "l167"]
    /\ UNCHANGED <<engine_vars, hardware_vars>>

\* line 167: self.should_stop.wait(1) returns
MainWait ==
    /\ meter.main = "l167"
    /\ meter' = [meter EXCEPT !.main = "l163"]
    /\ UNCHANGED <<engine_vars, hardware_vars>>

\* line 168: KeyboardInterrupt reaches the main thread inside the try block
KeyboardInterrupt ==
    /\ meter.main \in {"l163", "l154", "l156", "l165", "l167"}
    /\ meter' = [meter EXCEPT !.main = "l170"]
    /\ UNCHANGED <<engine_vars, hardware_vars>>

\* lines 169-171: self.should_stop.set(); self.mqtt_client.loop_stop()
ShutDown ==
    /\ meter.main = "l170"
    /\ meter' = [meter EXCEPT !.should_stop = TRUE, !.main = "l172"]
    /\ UNCHANGED <<engine_vars, hardware_vars>>

\* line 172: self.reader_thread.join()
Join ==
    /\ meter.main = "l172"
    /\ IF meter.reader_thread = 0
       THEN \* None has no attribute join
            meter' = [meter EXCEPT !.main = "raised", !.err = "AttributeError"]
       ELSE IF meter.threads[meter.reader_thread].pc = "created"
       THEN \* cannot join thread before it is started
            meter' = [meter EXCEPT !.main = "raised", !.err = "RuntimeError"]
       ELSE /\ ~IsAlive(meter.threads[meter.reader_thread])
            /\ meter' = [meter EXCEPT !.main = "done"]
    /\ UNCHANGED <<engine_vars, hardware_vars>>

\* faulty variant: the loop test does not look at the stop flag
ReaderLoopTestIgnoresStop(k) ==
    /\ meter.threads[k].pc = "l99"
    /\ meter' = [meter EXCEPT !.threads[k].pc = "l103", !.threads[k].i = 0,
                              !.threads[k].cycle = @ \/ meter.should_stop]
    /\ UNCHANGED <<engine_vars, hardware_vars>>

\* lines 99-101: while not self.should_stop.is_set(), and the cycle's start
ReaderLoopTest(k) ==
    /\ meter.threads[k].pc = "l99"
    /\ meter' = IF meter.should_stop
                THEN [meter EXCEPT !.threads[k].pc = "returned"]
                ELSE [meter EXCEPT !.threads[k].pc = "l103", !.threads[k].i = 0]
    /\ UNCHANGED <<engine_vars, hardware_vars>>

\* lines 102-103: the next channel of the for loop, channel.read(self.adc)
\* entered
ReaderReadStart(k) ==
    /\ meter.threads[k].pc = "l103"
    /\ meter' = [meter EXCEPT !.threads[k].pc = "reading",
                              !.threads[k].late =
                                  IF meter.should_stop
                                  THEN @ \cup {meter.threads[k].i} ELSE @]
    /\ UNCHANGED <<engine_vars, hardware_vars>>

\* lines 103-112: channel.read returns, the value is stored and published
ReaderReadReturns(k) ==
    /\ meter.threads[k].pc = "reading"
    /\ meter' = [meter EXCEPT
                   !.threads[k].i = @ + 1,
                   !.threads[k].pc = IF meter.threads[k].i + 1 = NumChannels
                                     THEN "l114" ELSE "l103"]
    /\ UNCHANGED <<engine_vars, hardware_vars>>

\* line 103: channel.read raises (the TimeoutError of read_raw); no handler
\* in read_channels, the thread ends
ReaderReadRaises(k) ==
    /\ meter.threads[k].pc = "reading"
    /\ meter' = [meter EXCEPT !.threads[k].pc = "raised",
                              !.threads[k].err = "TimeoutError"]
    /\ UNCHANGED <<engine_vars, hardware_vars>>

\* lines 114-123: add_reading returns; live_power, daily_power, publishing
ReaderAddReading(k) ==
    /\ meter.threads[k].pc = "l114"
    /\ meter' = [meter EXCEPT !.threads[k].pc = "l130"]
    /\ UNCHANGED <<engine_vars, hardware_vars>>

\* line 114: add_reading raises (ValueError or IndexError); no handler in
\* read_channels, the thread ends
ReaderAddReadingRaises(k) ==
    /\ meter.threads[k].pc = "l114"
    /\ \E err \in {"ValueError", "IndexError"} :
          meter' = [meter EXCEPT !.threads[k].pc = "raised", !.threads[k].err = err]
    /\ UNCHANGED <<engine_vars, hardware_vars>>

\* lines 126-136: the cycle was shorter than time_between_reads and the
\* thread waits, or it took longer and the thread goes on
ReaderPace(k) ==
    /\ meter.threads[k].pc = "l130"
    /\ \E pc \in {"waiting", "l99"} :
          meter' = [meter EXCEPT !.threads[k].pc = pc]
    /\ UNCHANGED <<engine_vars, hardware_vars>>

\* line 132: should_stop.wait(timeout) returns at its timeout
ReaderWaitTimeout(k) ==
    /\ meter.threads[k].pc = "waiting"
    /\ ~meter.should_stop
    /\ meter' = [meter EXCEPT !.threads[k].pc = "l99"]
    /\ UNCHANGED <<engine_vars, hardware_vars>>

\* line 132: should_stop.wait(timeout) returns because the flag is set
ReaderWokenByStop(k) ==
    /\ meter.threads[k].pc = "waiting"
    /\ meter.should_stop
    /\ meter' = [meter EXCEPT !.threads[k].pc = "l99"]
    /\ UNCHANGED <<engine_vars, hardware_vars>>

----------------------------------------------------------------------------
(* The next-state relations *)

\* the acquisition thread's steps
WriterNext(traced) ==
    \/ \E m \in ReadingMaps, t \in 0..LastInstant : AddReadingCall(m, t, traced)
    \/ ResetStepTimestamps
    \/ ResetStepCurrentReadings
    \/ ResetStepVoltageReadings
    \/ ResetStepIndex
    \/ AddReadingItem
    \/ AddReadingTimestamp
    \/ AddReadingAdvance

\* live_power and live_voltage
LiveNext ==
    \/ \E name \in QueryNames : LivePowerCall(name)
    \/ LiveVoltageCall
    \/ LivePowerCurrent
    \/ LiveVoltage
    \/ QueryDone

\* daily_power, power_history, current_history and voltage_history
HistoryNext ==
    \/ \E name \in QueryNames : DailyPowerCall(name)
    \/ \E name \in QueryNames, bins \in BinCounts : PowerHistoryCall(bins, name)
    \/ \E bins \in BinCounts : CurrentHistoryCall(bins)
    \/ \E bins \in BinCounts : VoltageHistoryCall(bins)
    \/ PowerHistoryEnter
    \/ PowerHistoryDeltas
    \/ PowerHistoryCurrent
    \/ PowerHistoryPower
    \/ PowerHistoryBins
    \/ PowerHistoryReturn
    \/ DailyPowerSum
    \/ DailyPowerReturn
    \/ HistoryTimestamps
    \/ CurrentHistoryMeans
    \/ VoltageHistoryMeans
    \/ HistoryReturn
    \/ QueryDone

\* the program is started at some instant of the first day
Start ==
    \E list \in ChannelLists, step \in Resolutions, t \in 0..(SecondsPerDay - 1) :
        Construct(list, step, t)

\* the engine with both threads
Next ==
    \/ Start
    \/ WriterNext(FALSE)
    \/ LiveNext
    \/ HistoryNext

Spec ==
    Init /\ [][Next]_vars

\* the engine and the acquisition thread alone, every call traced
EngineNext ==
    \/ Start
    \/ WriterNext(TRUE)

SpecEngine ==
    Init /\ [][EngineNext]_vars

\* the acquisition thread and a thread of live_power / live_voltage calls
LiveThreadsNext ==
    \/ Start
    \/ WriterNext(FALSE)
    \/ LiveNext

SpecLive ==
    Init /\ [][LiveThreadsNext]_vars

\* the acquisition thread and a thread of the queries that take the lock
HistoryThreadsNext ==
    \/ Start
    \/ WriterNext(FALSE)
    \/ HistoryNext

SpecHistory ==
    Init /\ [][HistoryThreadsNext]_vars

\* the ADC object alone
AdcNext ==
    \/ \E rate \in BitRates : SetBitrate(rate)
    \/ \E gain \in Gains : SetGain(gain)
    \/ \E mode \in {ONE_SHOT, CONTINUOUS} : SetConversionMode(mode)
    \/ \E channel \in AdcChannels : ReadRawCall(channel)
    \/ AdcPoll

SpecAdc ==
    Init /\ [][AdcNext]_vars

\* read_raw calls at every bit rate and in both conversion modes
PollingNext ==
    \/ \E rate \in BitRates : SetBitrate(rate)
    \/ \E mode \in {ONE_SHOT, CONTINUOUS} : SetConversionMode(mode)
    \/ \E channel \in {1, 5} : ReadRawCall(channel)
    \/ AdcPollFew

\* the polling loop runs on: the thread inside read_raw is scheduled
SpecAdcFair ==
    Init /\ [][PollingNext]_vars /\ WF_vars(AdcPollFew)

\* read_raw of each of the eight channels under every bit rate and gain
BusNext ==
    \/ \E rate \in BitRates : SetBitrate(rate)
    \/ \E gain \in {1, 2, 4, 8} : SetGain(gain)
    \/ \E mode \in {ONE_SHOT, CONTINUOUS} : SetConversionMode(mode)
    \/ \E channel \in 1..8 : ReadRawCall(channel)
    \/ AdcPollFew

SpecAdcBus ==
    Init /\ [][BusNext]_vars

\* the steps of the main thread that are its own
MainNext ==
    \/ Run
    \/ MainLoopTest
    \/ SuperviseReaderThread
    \/ StartReaderThread
    \/ UpdateDisplay
    \/ MainWait
    \/ ShutDown
    \/ Join

\* the steps of an acquisition thread that need nothing but the processor
ReaderRuns(k) ==
    \/ ReaderLoopTest(k)
    \/ ReaderReadStart(k)
    \/ ReaderReadReturns(k)
    \/ ReaderAddReading(k)
    \/ ReaderPace(k)
    \/ ReaderWokenByStop(k)

MeterNext ==
    \/ MainNext
    \/ KeyboardInterrupt
    \/ \E k \in ThreadSlots :
          \/ ReaderRuns(k)
          \/ ReaderReadRaises(k)
          \/ ReaderAddReadingRaises(k)
          \/ ReaderWaitTimeout(k)

SpecMeter ==
    Init /\ [][MeterNext]_vars

\* both kinds of thread are scheduled and a channel read under way ends;
\* when a wait times out and when the interrupt comes is left open
SpecMeterFair ==
    /\ Init /\ [][MeterNext]_vars
    /\ WF_vars(MainNext)
    /\ \A k \in ThreadSlots : WF_vars(ReaderRuns(k))

\* one channel alone
ChannelNext ==
    \/ \E config \in ChannelConfigs : FromConfig(config)
    \/ \E decoder \in Decoders : ChannelReadCall(decoder)
    \/ ChannelReadSample
    \/ ChannelReadTimeout
    \/ ChannelScale

SpecChannel ==
    Init /\ [][ChannelNext]_vars

----------------------------------------------------------------------------
(* Properties of add_reading and of the constructor (SpecEngine) *)

\* an add_reading call has ended, by return or by exception
CallEnded ==
    w.pc = "idle" /\ w.result # "none"

\* the rows and the timestamps are as in snapshot s
RowsAre(s) ==
    /\ timestamps = s.ts
    /\ current_readings = s.cur
    /\ voltage_readings = s.volt

\* the channels of a reading map
MapChannels(reading_map) ==
    {reading_map[i][1] : i \in 1..Len(reading_map)}

\* the value a reading map holds for a channel it supplies
MapValue(reading_map, channel) ==
    reading_map[CHOOSE i \in 1..Len(reading_map) : reading_map[i][1] = channel][2]

KnownChannels ==
    Range(current_channels) \cup {voltage_channel}

\* snapshot s holds a reading in some slot
HasData(s) ==
    \/ \E j \in 1..Len(s.volt) : ~IsNaN(s.volt[j])
    \/ \E row \in 1..Len(s.cur) : \E j \in 1..Len(s.ts) : ~IsNaN(s.cur[row][j])

\* C1: an add_reading call whose map holds a channel the engine was not
\* constructed with ends by the unknown-channel error (ValueError) and
\* leaves every row, every timestamp and the write cursor as it found them.
C1_UnknownChannelLeavesBuffer ==
    (CallEnded /\ ~(MapChannels(w.map) \subseteq KnownChannels))
        => /\ w.result = "ValueError"
           /\ RowsAre(w.pre)
           /\ current_reading_index = w.pre.idx

\* C2: an add_reading call that finds the write cursor at or past the
\* number of slots returns normally and changes no row and no timestamp.
C2_OverflowDropsReading ==
    (CallEnded /\ w.pre.idx >= Len(w.pre.ts))
        => /\ w.result = "ok"
           /\ RowsAre(w.pre)

\* the call was made at an instant later than the last slot's timestamp
CalledAfterLastSlot ==
    now > w.pre.ts[Len(w.pre.ts)]

\* slot j (from 1) holds what the call's map supplies and NaN elsewhere
SlotHoldsMap(j) ==
    /\ \A row \in 1..Len(current_channels) :
          current_readings[row][j] =
             IF current_channels[row] \in MapChannels(w.map)
             THEN MapValue(w.map, current_channels[row]) ELSE NaN
    /\ voltage_readings[j] =
          IF voltage_channel \in MapChannels(w.map)
          THEN MapValue(w.map, voltage_channel) ELSE NaN

SlotIsEmpty(j) ==
    /\ \A row \in 1..Len(current_channels) : IsNaN(current_readings[row][j])
    /\ IsNaN(voltage_readings[j])

\* C6: an add_reading call made at an instant later than the last slot's
\* timestamp resets the buffer before it writes: when the call has ended,
\* every slot but the one at the freshly seeded cursor is NaN in every row
\* and carries its nominal time of the new day, and after a normal return
\* the slot at the seeded cursor holds the reading and its arrival time and
\* the cursor is one past it.
C6_RolloverOnWrite ==
    (CallEnded /\ CalledAfterLastSlot)
        => LET seeded == ((now - StartOfDay(DayOf(now))) \div temporal_resolution) + 1
               nominal == Arange(StartOfDay(DayOf(now)), temporal_resolution)
           IN /\ w.reset
              /\ \A j \in 1..Len(timestamps) :
                    j # seeded => SlotIsEmpty(j) /\ timestamps[j] = nominal[j]
              /\ w.result = "ok"
                    => /\ seeded \in 1..Len(timestamps)
                       /\ SlotHoldsMap(seeded)
                       /\ timestamps[seeded] = now
                       /\ current_reading_index = seeded

\* C6 witness: a call that returned normally after resetting a buffer that held readings
C6_Witness ==
    /\ CallEnded
    /\ CalledAfterLastSlot
    /\ w.result = "ok"
    /\ HasData(w.pre)
    /\ ~IsNaN(voltage_readings[current_reading_index])

\* C7: an add_reading call made on the local day the buffer was created for
\* discards no slot written that day: every reading the call found in a
\* slot before the write cursor is still there when the call has ended.
C7_NoResetBeforeMidnight ==
    (CallEnded /\ DayOf(now) = w.pre.today)
        => \A j \in 1..Len(w.pre.ts) :
              j <= w.pre.idx
                 => /\ ~IsNaN(w.pre.volt[j]) => voltage_readings[j] = w.pre.volt[j]
                    /\ \A row \in 1..Len(w.pre.cur) :
                          ~IsNaN(w.pre.cur[row][j])
                             => current_readings[row][j] = w.pre.cur[row][j]

\* C10: the constructor succeeds exactly for a channel list with one
\* voltage channel; with none or several it fails with the configuration
\* error (ValueError) and creates no buffer.
C10_SingleVoltageChannel ==
    engine # "none"
        => IF Len(OfType(channels, "voltage")) = 1
           THEN engine = "ok"
           ELSE engine = "ValueError" /\ timestamps = <<>>

----------------------------------------------------------------------------
(* Properties of the threads (Spec, SpecLive, SpecHistory) *)

\* the lines of the query thread that read the buffer
ReaderReads ==
    r.pc \in {"lp146", "lp149", "lv157", "ph127", "ph130", "ph133", "ph134",
              "ch163", "ch164", "vh177", "vh178"}

\* the lines of the acquisition thread that read or write the buffer
WriterAccesses ==
    w.pc \in {"r38", "r54", "r57", "r62", "a77", "a87", "a89"}

\* C3: every public operation holds the engine's lock at every access to the
\* buffer: a thread at a line that reads or writes the rows, the timestamps
\* or the cursor owns the lock.
C3_LockHeldAtEveryAccess ==
    /\ ReaderReads => lock.owner = "r"
    /\ WriterAccesses => lock.owner = "w"

\* C4: the cursor, the current values and the voltage value one live_power
\* (or live_voltage) call uses belong to one generation of the buffer.
C4_NoTornLiveRead ==
    (r.pc = "returned" /\ r.op \in {"live_power", "live_voltage"}) => ~r.torn

\* the query thread is inside a with self._lock block of a query that takes the lock
InsideLockedQuery ==
    r.pc \in {"ph126", "ph127", "ph130", "ph133", "ph134", "ph138", "dp113", "dp115",
              "ch163", "ch164", "ch169", "vh177", "vh178", "vh182"}

\* C5: add_reading is atomic for the queries that take the lock: while
\* power_history, daily_power, current_history or voltage_history is inside
\* its locked block no add_reading call is under way, and what the query
\* has computed from its separate reads of the timestamps and the rows is
\* what one state of the buffer, between two add_reading calls, gives.
C5_AddReadingAtomicForLockedQueries ==
    /\ InsideLockedQuery => w.pc = "idle"
    /\ r.pc = "ph138"
          => r.ret = PowerHistoryOf(timestamps, current_readings, voltage_readings,
                                    r.bins, r.name)
    /\ r.pc \in {"ch169", "vh182"}
          => r.ret = BinnedMeans(timestamps, current_readings, r.bins)

\* C5 witness: power_history has its result from a buffer that holds energy,
\* after the acquisition thread wrote
C5_Witness ==
    /\ r.pc = "ph138"
    /\ r.op = "power_history"
    /\ w.result = "ok"
    /\ \E k \in 1..Len(r.ret) : r.ret[k][1] > 0

\* the phase-current channels
PhaseChannels ==
    {current_channels[i] : i \in 1..num_phase_current_channels}

\* the last add_reading call returned normally and supplied a voltage and
\* every phase current; the live_power call began after it and no other
\* add_reading call began since
LivePowerAfterFullReading ==
    /\ r.pc = "returned"
    /\ r.op = "live_power"
    /\ r.after = w.calls
    /\ PhaseChannels \cup {voltage_channel} \subseteq MapChannels(w.map)

\* the sum of the values a reading map holds for a set of channels
RECURSIVE MapSum(_, _)
MapSum(reading_map, chosen) ==
    IF reading_map = <<>> THEN 0
    ELSE (IF reading_map[1][1] \in chosen THEN reading_map[1][2] ELSE 0)
         + MapSum(Tail(reading_map), chosen)

\* C8: after an add_reading call that returned normally with a voltage v and
\* every phase current, live_power() returns (the sum of the phase currents
\* supplied) x v, and live_power(name) returns (the value supplied for the
\* named current channel) x v.
C8_LivePowerOfLastReading ==
    LivePowerAfterFullReading
        => LET v == MapValue(w.map, voltage_channel) IN
           /\ r.name = "None" => r.ret = MapSum(w.map, PhaseChannels) * v
           /\ r.name \in MapChannels(w.map) => r.ret = MapValue(w.map, r.name) * v

\* C8 witness: live_power() and live_power("o1") after a full reading
C8_Witness ==
    /\ LivePowerAfterFullReading
    /\ r.name = "None"
    /\ "o1" \in MapChannels(w.map)
    /\ r.ret = 9

\* C9: daily_power(selector) is the sum of power_history(1, selector) on the
\* state the buffer is in while daily_power holds the lock.
C9_DailyPowerIsOneBin ==
    r.pc = "dp115"
        => r.ret = SumOfBins(PowerHistoryOf(timestamps, current_readings,
                                            voltage_readings, 1, r.name))

\* C9 witness: daily_power has its result from a buffer that holds energy
C9_Witness ==
    /\ r.pc = "dp115"
    /\ r.ret[1] > 0

----------------------------------------------------------------------------
(* Properties of read_raw (SpecAdc, SpecAdcFair) *)

\* read_raw has returned a sample
ReadRawReturned ==
    adc.call.op = "read_raw" /\ adc.call.pc = "returned"

\* the payload bytes of the block the last poll received
ReceivedPayload ==
    SubSeq(adc.call.block, 1, PayloadBytes(adc.bitrate))

\* C11: for every bit depth and every signed value v of that depth,
\* read_raw returns v when the payload bytes it received hold the
\* two's-complement pattern of v, whatever the unused high bits of the
\* first byte.
C11_TwosComplementRoundTrip ==
    ReadRawReturned
        => \A v \in SampleValues(adc.bitrate), fill \in BOOLEAN :
              ReceivedPayload = Payload(adc.bitrate, v, fill) => adc.call.raw = v

\* a read_raw call is in its polling loop
Polling ==
    adc.call.pc = "l117"

\* read_raw has raised the conversion timeout
ReadRawTimedOut ==
    adc.call.op = "read_raw" /\ adc.call.pc = "raised"

\* the top bit of the status byte of the last poll is set
StatusBusy ==
    adc.call.cmd_byte >= 128

\* C12: read_raw terminates: a call in its polling loop returns or raises.
\* It returns only from a poll whose status byte has the top bit clear; it
\* stays in the loop only while the clock has not passed the timeout horizon
\* (100 x the conversion time of the bit depth); it raises the timeout only
\* from a busy poll after the horizon, without a value; and it writes to the
\* bus only before its first poll (no conversion is started again).
C12_PollingEndsOrTimesOut ==
    /\ [](ReadRawReturned => ~StatusBusy)
    /\ [](Polling => adc.call.elapsed <= 100 * SecondsPerSample(adc.bitrate))
    /\ [](ReadRawTimedOut
             => /\ StatusBusy
                /\ adc.call.elapsed > 100 * SecondsPerSample(adc.bitrate)
                /\ adc.call.raw = 0)
    /\ [](adc.call.op = "read_raw"
             => \A i \in 1..Len(adc.call.writes) : adc.call.writes[i].reads_before = 0)
    /\ (Polling ~> (ReadRawReturned \/ ReadRawTimedOut))

\* C12 witness: a call timed out after several busy polls
C12_Witness ==
    /\ ReadRawTimedOut
    /\ adc.call.polls >= 3

----------------------------------------------------------------------------
(* Properties of Channel (SpecChannel) *)

\* C13: calibration is validated when the channel is built, never at read
\* time: no read of a channel that from_config built fails with a division
\* by zero while scaling a sample (calibration points of equal
\* x-coordinates were rejected by from_config).
C13_CalibrationValidatedAtSetup ==
    chan.read.pc = "raised" => chan.read.err # "ZeroDivisionError"

----------------------------------------------------------------------------
(* Properties of the history queries (SpecHistory) *)

\* per slot, the sum of the selected current rows with NaN counted as 0
NanTotalCurrent(cur, indices, n) ==
    [j \in 1..n |-> NanSum([k \in 1..Len(indices) |-> cur[indices[k]][j]])]

\* C14: in power_history a NaN current inside a slot counts as 0 in that
\* slot's sum: the result is the binned sum of (sum of the non-NaN selected
\* currents) x voltage x time delta over the slots, and no bin is NaN.
C14_NaNCountsAsZeroInSlot ==
    r.pc = "ph138"
        => /\ r.ret = BinnedPower(timestamps,
                                  SlotPower(NanTotalCurrent(current_readings,
                                                            GetCurrentChannelsForName(r.name),
                                                            Len(timestamps)),
                                            voltage_readings, TimeDeltas(timestamps)),
                                  r.bins)
           /\ \A k \in 1..Len(r.ret) : ~IsNaN(r.ret[k][1])

\* C15: voltage_history(bins) of a buffer that holds a voltage reading is
\* the NaN-excluding mean of the voltage row within each of the bins time
\* buckets; it is a function of the voltage row and the timestamps alone.
C15_VoltageHistoryOfVoltageRow ==
    (r.pc = "vh182" /\ \E j \in 1..Len(voltage_readings) : ~IsNaN(voltage_readings[j]))
        => r.ret = [k \in 1..r.bins |->
                       NanMean(InBin(voltage_readings, timestamps, r.bins, k))]

----------------------------------------------------------------------------
(* Properties of the write cursor (Spec) *)

\* the step is the normal return of an add_reading call
ReturnsNormally ==
    w.pc = "a89" /\ w'.pc = "idle" /\ w'.result = "ok"

\* the step is the one of a reset that seeds the cursor (line 62)
SeedsCursor ==
    w.pc = "r62"

\* C16: between two resets the write cursor never decreases: at the normal
\* return of an add_reading call it grows by exactly one, and no other
\* step -- of an add_reading call that raises, of a query -- changes it.
C16_CursorAdvancesByOne ==
    [][engine = "ok"
          => /\ ReturnsNormally => current_reading_index' = current_reading_index + 1
             /\ (w.result = "running" /\ w'.result \in {"ValueError", "IndexError"})
                   => current_reading_index' = current_reading_index
             /\ r'.pc # r.pc => current_reading_index' = current_reading_index
             /\ (~ReturnsNormally /\ ~SeedsCursor)
                   => current_reading_index' = current_reading_index]_vars

\* C16 witness: two calls returned normally without a reset and a query has
\* its result
C16_Witness ==
    /\ w.calls = 2
    /\ w.pc = "idle"
    /\ w.result = "ok"
    /\ ~w.reset
    /\ current_reading_index >= 2
    /\ r.pc = "returned"

----------------------------------------------------------------------------
(* The frame of add_reading (SpecEngine) *)

\* an add_reading call returned normally and did not reset the buffer
WroteWithoutReset ==
    CallEnded /\ w.result = "ok" /\ ~w.reset

\* C17: an add_reading call that returns normally without a reset changes
\* only the slot at the cursor it started with: that slot's timestamp is the
\* arrival time and its entries for the supplied channels are the supplied
\* values; the entries of the channels not supplied, and every other slot
\* of every row and of the timestamps, are as the call found them.
C17_WritesOnlyCursorSlot ==
    WroteWithoutReset
        => LET slot == w.pre.idx + 1 IN
           /\ slot \in 1..Len(timestamps)
           /\ timestamps[slot] = now
           /\ voltage_readings[slot] =
                 IF voltage_channel \in MapChannels(w.map)
                 THEN MapValue(w.map, voltage_channel) ELSE w.pre.volt[slot]
           /\ \A row \in 1..Len(current_channels) :
                 current_readings[row][slot] =
                    IF current_channels[row] \in MapChannels(w.map)
                    THEN MapValue(w.map, current_channels[row]) ELSE w.pre.cur[row][slot]
           /\ \A j \in 1..Len(timestamps) :
                 j # slot
                    => /\ timestamps[j] = w.pre.ts[j]
                       /\ voltage_readings[j] = w.pre.volt[j]
                       /\ \A row \in 1..Len(current_channels) :
                             current_readings[row][j] = w.pre.cur[row][j]

\* C17 witness: a second reading was stored after the nominal time of its
\* slot, beside the first one
C17_Witness ==
    /\ WroteWithoutReset
    /\ w.calls = 2
    /\ w.pre.idx >= 1
    /\ now > w.pre.ts[w.pre.idx + 1]
    /\ ~IsNaN(voltage_readings[w.pre.idx])

----------------------------------------------------------------------------
(* The time weights of power_history (SpecHistory) *)

\* C18: the time weight of every slot is never negative, whatever the order
\* of the timestamps, and with stored values that are non-negative or NaN
\* every bin of power_history and the value of daily_power are >= 0.
C18_TimeWeightsNotNegative ==
    /\ r.pc \in {"ph130", "ph133"} => \A i \in 1..Len(r.a) : r.a[i] >= 0
    /\ r.pc = "ph138" => \A k \in 1..Len(r.ret) : r.ret[k][1] >= 0
    /\ r.pc = "dp115" => r.ret[1] >= 0

\* C18 witness: power_history has its result from a buffer in which a slot
\* that holds a reading carries an arrival time later than the nominal time
\* of the slot after it
C18_Witness ==
    /\ r.pc = "ph138"
    /\ \E i \in 1..(Len(timestamps) - 1) :
          /\ timestamps[i + 1] < timestamps[i]
          /\ ~IsNaN(voltage_readings[i])
          /\ \E row \in 1..Len(current_readings) : ~IsNaN(current_readings[row][i])

----------------------------------------------------------------------------
(* The bus traffic of read_raw (SpecAdc) *)

\* a read_raw call has polled the device
ReadRawPolled ==
    adc.call.op = "read_raw" /\ adc.call.polls > 0

\* C19: every poll of read_raw asks the device for ceil(bit_depth / 8) + 1
\* bytes, and the byte it tests for conversion-complete is the one that
\* directly follows the ceil(bit_depth / 8) payload bytes.
C19_PollReadsPayloadAndStatus ==
    ReadRawPolled
        => /\ \A read \in adc.call.reads : read.length = PayloadBytes(adc.bitrate) + 1
           /\ adc.call.cmd_byte = adc.call.block[PayloadBytes(adc.bitrate) + 1]

\* the device that owns a channel: A for 1..4, B for 5..8
OwnerOf(channel) ==
    IF channel \in 1..4 THEN Adc1Address ELSE Adc2Address

\* C20: in one-shot mode a read_raw call makes exactly one bus write, to the
\* device that owns the channel, of its configuration byte with bit 7 set,
\* before its first polling read; in continuous mode it makes no bus write.
C20_OneStartWritePerOneShotRead ==
    adc.call.op = "read_raw"
        => IF adc.conversionmode = ONE_SHOT
           THEN /\ Len(adc.call.writes) = 1
                /\ adc.call.writes[1].address = OwnerOf(adc.call.channel)
                /\ adc.call.writes[1].byte >= 128
                /\ adc.call.writes[1].byte % 128 = adc.call.config % 128
                /\ adc.call.writes[1].reads_before = 0
           ELSE adc.call.writes = <<>>

\* C20 witness: a one-shot read of a channel of device B that polled twice
C20_Witness ==
    /\ ReadRawPolled
    /\ adc.conversionmode = ONE_SHOT
    /\ adc.call.channel = 5
    /\ adc.call.polls >= 2

----------------------------------------------------------------------------
(* read_raw: routing and the configuration byte *)

\* bits first..last of a byte
Field(byte, first, last) ==
    (byte \div (2 ^ first)) % (2 ^ (last - first + 1))

\* the bytes a read_raw call put on the bus as configuration: the start
\* write (bit 7 aside) and the command of every polling read
ConfigBytesSent ==
    {adc.call.writes[k].byte % 128 : k \in 1..Len(adc.call.writes)}
        \cup {read.cmd % 128 : read \in adc.call.reads}

AddressesUsed ==
    {adc.call.writes[k].address : k \in 1..Len(adc.call.writes)}
        \cup {read.address : read \in adc.call.reads}

\* C21: for every channel c in 1..8 all bus traffic of read_raw(c), the start
\* write and every polling read, goes to device A when c <= 4 and to device B
\* when c >= 5; bits 5-6 of the configuration byte used are (c - 1) mod 4 and
\* its bit-depth and gain bits are those of the most recent settings.
C21_ReadRawRoutingAndConfig ==
    adc.call.op = "read_raw"
        => /\ AddressesUsed \subseteq {OwnerOf(adc.call.channel)}
           /\ ConfigBytesSent \subseteq {adc.call.config % 128}
           /\ Field(adc.call.config, 5, 6) = (adc.call.channel - 1) % 4
           /\ Field(adc.call.config, 2, 3) * 4 = BitrateConfig(adc.bitrate)
           /\ Field(adc.call.config, 0, 1) = GainConfig(adc.gain)

\* C21 witness: a one-shot read of channel 7 that polled twice, after the
\* bit depth was lowered to 14 and the gain raised to 4
C21_Witness ==
    /\ ReadRawPolled
    /\ adc.call.channel = 7
    /\ adc.call.polls >= 2
    /\ Len(adc.call.writes) = 1
    /\ adc.bitrate = 14
    /\ adc.gain = 4

----------------------------------------------------------------------------
(* the conversion mode: the field and the configuration byte *)

\* C27: in every reachable decoder state, bit 4 of the stored configuration
\* byte (set for continuous, clear for one-shot) agrees with the conversion
\* mode that read_raw consults.
C27_ModeBitAgreesWithMode ==
    Field(adc.config_register, 4, 4) * 16 = adc.conversionmode

----------------------------------------------------------------------------
(* the cursor a reset seeds *)

\* the buffer was reset and nothing was written since: the engine was just
\* constructed, or add_reading comes back from the rollover reset
JustReset ==
    /\ engine = "ok"
    /\ \/ w.calls = 0 /\ w.pc = "idle"
       \/ w.reset /\ w.pc = "a77"

\* C26: after every buffer reset, at construction and at a rollover, the
\* seeded cursor satisfies 0 <= cursor < slot count, for every sample
\* interval and time of day, so the write that follows a reset is never an
\* overflow.
C26_SeededCursorInRange ==
    JustReset
        => /\ 0 <= current_reading_index
           /\ current_reading_index < Len(timestamps)

----------------------------------------------------------------------------
(* Channel.read: setup, sampling, scaling, aggregation *)

\* a read of a channel that is not static has ended and neither a raw read
\* nor the calibration (C13) failed
ReadEnded ==
    /\ chan.state = "ok"
    /\ chan.channel # DUMMY_CHANNEL
    /\ chan.read.pc \in {"returned", "raised"}
    /\ chan.read.err \notin {"TimeoutError", "ZeroDivisionError"}

\* C22: for a channel that is not static, read() first configures the
\* decoder's bit depth and gain for this channel, then performs exactly
\* `samples` raw reads of this channel's index, and returns the aggregate of
\* the individually scaled samples.
C22_ReadConfiguresSamplesScalesAggregates ==
    ReadEnded
        => /\ chan.read.setup = <<<<"set_bit_rate", chan.bits>>, <<"set_pga", chan.gain>>>>
           /\ chan.read.raw_reads = [k \in 1..chan.samples |-> chan.channel]
           /\ chan.read.pc = "returned"
           /\ chan.read.result
                 = Aggregate(chan.aggregator,
                             [k \in 1..chan.samples |->
                                 ScaleValue(chan.calibration_points, chan.read.samples[k])])

\* the same read handed a decoder that has set_bit_rate and set_pga
ReadOfDummyAdcAsClaimed ==
    chan.read.decoder = "DummyAdc" => C22_ReadConfiguresSamplesScalesAggregates

----------------------------------------------------------------------------
(* the sampling loop and the stop flag *)

\* C23: stopping is cooperative: the stop flag is checked between channel
\* reads and at the top of each sampling cycle, so once it is set the loop
\* starts no channel read other than one already in flight and no new
\* sampling cycle.  Stated for the reads that follow another read of their
\* cycle: the flag was set before the test that would stand between the two.
C23_NoReadStartedAfterStop ==
    \A k \in ThreadSlots :
        /\ meter.threads[k].late \subseteq {0}
        /\ ~meter.threads[k].cycle

\* C24: when a channel read raises a conversion timeout, or add_reading
\* raises an unknown-channel error, inside a sampling cycle, the sampling loop
\* handles the error itself and keeps running; the acquisition thread does not
\* terminate because of it.
C24_ErrorsDoNotEndTheThread ==
    \A k \in ThreadSlots :
        meter.threads[k].err \in {"TimeoutError", "ValueError"}
            => meter.threads[k].pc # "raised"

----------------------------------------------------------------------------
(* shutdown and supervision *)

\* self.reader_thread is a thread that was started
ReaderStarted ==
    /\ meter.reader_thread # 0
    /\ meter.threads[meter.reader_thread].pc # "created"

NoThreadAlive ==
    \A k \in ThreadSlots : ~IsAlive(meter.threads[k])

\* C25: after a shutdown request sets the stop flag, the acquisition thread
\* eventually terminates and the join in run() returns, provided every
\* decoder read in flight terminates; a thread that is waiting out its
\* interval is woken by the flag.
C25_StopEndsThreadAndJoin ==
    (meter.should_stop /\ ReaderStarted) ~> (NoThreadAlive /\ meter.main = "done")

\* C25 witness: run() has returned from the join on a thread that left its
\* loop after finishing, with the flag set, the cycle it was in
C25_Witness ==
    /\ meter.should_stop
    /\ meter.main = "done"
    /\ \E k \in ThreadSlots :
          /\ meter.reader_thread = k
          /\ meter.threads[k].pc = "returned"
          /\ meter.threads[k].late # {}

ReaderAlive ==
    /\ meter.reader_thread # 0
    /\ IsAlive(meter.threads[meter.reader_thread])

\* the thread self.reader_thread refers to has terminated, the flag is not set
ReaderDiedUnstopped ==
    /\ ReaderStarted
    /\ ~ReaderAlive
    /\ ~meter.should_stop

====
